---- MODULE Spec2Model ----
(***************************************************************************)
(* State-machine model of install_build.py: the InstallationManager's      *)
(* prerequisite gate, confirmation prompt, command loop, summary and the   *)
(* process exit status produced by main.                                   *)
(***************************************************************************)
EXTENDS Integers, Sequences, FiniteSets, TLC

\* Longest generic command list drawn at construction (besides the declared one).
MaxSteps == 2

\* How many times migrate_xi.main is run on the same backend directory.
MaxRuns == 2

\* Longest line typed at a prompt when the typed lines are followed.
MaxAnswerLen == 3

\* How many times check_prerequisites is called against one environment.
GateCalls == 2

\* print_summary shows at most this many successful names in the rich table.
SummaryNameLimit == 3

(***************************************************************************)
(* Strings the code transforms are sequences of one-character strings, so  *)
(* that strip() and lower() are computed and not assumed.                  *)
(***************************************************************************)
LowerChar(c) ==
    CASE c = "Y" -> "y"
      [] c = "E" -> "e"
      [] c = "S" -> "s"
      [] c = "N" -> "n"
      [] c = "O" -> "o"
      [] OTHER -> c

Lower(s) == [k \in 1..Len(s) |-> LowerChar(s[k])]

RECURSIVE LStrip(_)
LStrip(s) == IF s # <<>> /\ Head(s) = " " THEN LStrip(Tail(s)) ELSE s

RECURSIVE RStrip(_)
RStrip(s) ==
    IF s # <<>> /\ s[Len(s)] = " " THEN RStrip(SubSeq(s, 1, Len(s) - 1)) ELSE s

Strip(s) == RStrip(LStrip(s))

\* What the user may type at an input() prompt.
Responses ==
    { <<>>, <<"y">>, <<"Y", "E", "S">>, <<" ", "n", " ">>, <<"N", "o">>,
      <<"n", "o", "p", "e">>, <<" ">> }

\* The characters of the lines typed when the typed lines are followed.
AnswerChars == {"y", "Y", "n", "N", "e", "s", "o", " "}

\* Every line of at most MaxAnswerLen of these characters.
Answers == UNION { [1..n -> AnswerChars] : n \in 0..MaxAnswerLen }

\* What one subprocess.run call can do: return code 0, a non-zero return code,
\* TimeoutExpired, FileNotFoundError, or another OSError (e.g. PermissionError).
Outcomes == {"ok", "nonzero", "timeout", "notfound", "oserror"}

\* The display names of check_prerequisites' fixed tool list.
Prerequisites == <<"Node.js", "npm", "Git">>

Command(name, required, check_cmd, install_hint) ==
    [name |-> name, required |-> required,
     check_cmd |-> check_cmd, install_hint |-> install_hint]

\* self.commands as __init__ declares it (check_cmd / install_hint: present or not).
DeclaredCommands ==
    << Command("Node.js/pnpm Check", TRUE, TRUE, TRUE),
       Command("Rust/Cargo Check", TRUE, TRUE, TRUE),
       Command("Frontend Dependencies", TRUE, FALSE, FALSE),
       Command("Rust Dependencies Fetch", TRUE, FALSE, FALSE),
       Command("Rust Dependencies Build", TRUE, FALSE, FALSE),
       Command("Tauri CLI", TRUE, FALSE, FALSE),
       Command("Cargo Nextest", TRUE, FALSE, FALSE),
       Command("Cargo Helper Tools", TRUE, FALSE, FALSE) >>

\* Command lists of one to MaxSteps steps over the declared names, with every
\* combination of the dataclass's required / check_cmd / install_hint fields.
GenericCommands(n) ==
    { [k \in 1..n |-> Command(DeclaredCommands[k].name, f[k][1], f[k][2], f[k][3])] :
        f \in [1..n -> BOOLEAN \X BOOLEAN \X BOOLEAN] }

CommandLists ==
    {DeclaredCommands} \cup UNION { GenericCommands(n) : n \in 1..MaxSteps }

Names(cmds) == [k \in 1..Len(cmds) |-> cmds[k].name]

Range(s) == { s[k] : k \in 1..Len(s) }

Min(a, b) == IF a < b THEN a ELSE b

VARIABLES
    RICH_AVAILABLE,        \* which console implementation was selected at import
    commands,              \* self.commands
    successful_commands,   \* self.successful_commands
    failed_commands,       \* self.failed_commands
    skipped_commands,      \* self.skipped_commands
    pc,                    \* position of control inside main / run_installation
    p,                     \* index of the prerequisite being checked
    missing,               \* check_prerequisites' local list
    i,                     \* enumerate index of the for loop (1-based)
    check_result,          \* outcome of the current step's check_cmd run
    result,                \* outcome of the current step's cmd run
    returned,              \* log of run_command's return values, one per call
    calls,                 \* log of subprocess.run calls: <<kind, name>>
    prompts,               \* log of prompts: what was asked and the decision
    summary,               \* what print_summary displayed
    ending,                \* which exit path of run_installation / main was taken
    exit_status,           \* process exit status (-1 while running)
    message,               \* the failure line run_command printed last
    environment,           \* what each tool's version check does, when fixed
    gate_results,          \* log of the finished check_prerequisites calls
    typed,                 \* the line typed at a prompt, when one is followed
    stage,                 \* migrate_xi.main: the step to run next (0: not in main)
    ran,                   \* migrate_xi.main: the steps run since main was entered
    exits,                 \* log of migrate_xi.main's return values
    cargo_packages,        \* [package] sections in the backend's root Cargo.toml
    deleted                \* what cleanup_xi_directories was called to delete

vars ==
    << RICH_AVAILABLE, commands, successful_commands, failed_commands,
       skipped_commands, pc, p, missing, i, check_result, result, returned,
       calls, prompts, summary, ending, exit_status, message, environment,
       gate_results, typed, stage, ran, exits, cargo_packages, deleted >>

\* The state of the migration script, which the installer never touches.
migration_vars == <<stage, ran, exits, cargo_packages, deleted>>

NoSummary ==
    [printed |-> FALSE, successful_count |-> 0, successful_names |-> <<>>,
     more |-> 0, failed_count |-> 0, failed_names |-> <<>>,
     skipped_count |-> 0, skipped_names |-> <<>>, all_ok |-> FALSE]

ConfirmPrompt == "Continue with installation?"

NoMessage == [name |-> "", kind |-> "none", hint |-> FALSE]

\* The state after InstallationManager() was constructed, main about to call
\* run_installation.
Start ==
    /\ RICH_AVAILABLE \in BOOLEAN
    /\ successful_commands = <<>>
    /\ failed_commands = <<>>
    /\ skipped_commands = <<>>
    /\ pc = "gate"
    /\ p = 1
    /\ missing = <<>>
    /\ i = 0
    /\ check_result = "none"
    /\ result = "none"
    /\ returned = <<>>
    /\ calls = <<>>
    /\ prompts = <<>>
    /\ summary = NoSummary
    /\ ending = "running"
    /\ exit_status = -1
    /\ message = NoMessage
    /\ gate_results = <<>>

\* The migration script is not running.
NoMigration ==
    /\ stage = 0
    /\ ran = <<>>
    /\ exits = <<>>
    /\ cargo_packages = 0
    /\ deleted = {}

\* Any command list; what the tools' version checks do is left open and
\* chosen check by check.
Init ==
    /\ commands \in CommandLists
    /\ environment = <<>>
    /\ typed = <<>>
    /\ NoMigration
    /\ Start

\* sys.exit(code): SystemExit is not an Exception, so main lets it through.
SysExit(code, how) ==
    /\ pc' = "done"
    /\ ending' = how
    /\ exit_status' = code

\* Mutant: the gate passes whatever is missing.
GateVerdictIgnoresMissing(miss) == TRUE

\* check_prerequisites' return value.
GateVerdict(miss) == miss = <<>>

\* Whether a version check leaves its tool out of `missing`.
ToolPresent(out) == out = "ok"

\* Mutant: `missing` is kept from one check_prerequisites call to the next.
MissingKept == missing

\* check_prerequisites' local list before the current iteration: `missing = []`
\* at the top of the function, then what the earlier iterations appended.
MissingSoFar == IF p = 1 THEN <<>> ELSE missing

\* Mutant: the loop stops at the first missing tool.
NextToolAfterMissing(out) ==
    IF ToolPresent(out) THEN p + 1 ELSE Len(Prerequisites) + 1

\* The loop goes on to the next tool whatever the check found.
NextTool(out) == p + 1

\* One iteration of check_prerequisites' loop for a version check that does
\* `out`; after the last tool, its verdict and run_installation's sys.exit(1).
\* An OSError other than FileNotFoundError is not among the caught exceptions
\* and reaches main's `except Exception`.
GateStep(out) ==
    /\ calls' = Append(calls, <<"prereq", Prerequisites[p]>>)
    /\ IF out = "oserror"
       THEN /\ SysExit(1, "fault")
            /\ missing' = MissingSoFar
            /\ UNCHANGED p
       ELSE /\ missing' = IF ToolPresent(out) THEN MissingSoFar
                          ELSE Append(MissingSoFar, Prerequisites[p])
            /\ p' = NextTool(out)
            /\ IF p' <= Len(Prerequisites)
               THEN UNCHANGED <<pc, ending, exit_status>>
               ELSE IF GateVerdict(missing')
                    THEN pc' = "confirm" /\ UNCHANGED <<ending, exit_status>>
                    ELSE SysExit(1, "gate_abort")

\* The gate of a run: each version check does whatever its tool does.
CheckPrerequisite ==
    /\ pc = "gate"
    /\ \E out \in Outcomes : GateStep(out)
    /\ UNCHANGED << RICH_AVAILABLE, commands, message, environment, gate_results, typed,
                    migration_vars,
                    successful_commands, failed_commands,
                    skipped_commands, i, check_result, result, returned, prompts,
                    summary >>

\* Mutant: the continuation prompt takes everything but n / no as a yes.
ContinueAcceptsUnlessNo(response) ==
    Lower(Strip(response)) \notin { <<"n">>, <<"n", "o">> }

\* The two prompts' decisions in the basic console: input(...).strip().lower().
ConfirmAccepts(response) == Lower(Strip(response)) \notin { <<"n">>, <<"n", "o">> }

ContinueAccepts(response) ==
    Lower(Strip(response)) \in { <<"y">>, <<"y", "e", "s">> }

\* Confirm.ask(prompt, default=default) of the rich console for one line typed:
\* the empty line returns the default; any other line is stripped and
\* lower-cased, "y" returns True, "n" returns False, and everything else is
\* rejected ("Please enter Y or N") and the prompt is shown again.
RichAsk(default, response) ==
    IF response = <<>>
    THEN [valid |-> TRUE, value |-> default]
    ELSE [valid |-> Lower(Strip(response)) \in { <<"y">>, <<"n">> },
          value |-> Lower(Strip(response)) = <<"y">>]

\* What a line typed at "Continue with installation?" decides.
ConfirmDecision(rich, response) ==
    IF rich THEN RichAsk(TRUE, response)
    ELSE [valid |-> TRUE, value |-> ConfirmAccepts(response)]

\* What a line typed at "Continue despite this failure?" decides.
ContinueDecision(rich, response) ==
    IF rich THEN RichAsk(FALSE, response)
    ELSE [valid |-> TRUE, value |-> ContinueAccepts(response)]

\* Mutant: a declined confirmation exits like an error.
DeclineConfirmationAsError == SysExit(1, "declined") /\ UNCHANGED i

\* "Installation cancelled by user." and sys.exit(0).
DeclineConfirmation == SysExit(0, "declined") /\ UNCHANGED i

\* Mutant: the loop steps over the command it was about to run.
LoopAtSkipping(j) ==
    /\ i' = j + 1
    /\ IF j + 1 <= Len(commands)
       THEN pc' = "step" /\ UNCHANGED ending
       ELSE pc' = "summary" /\ ending' = "completed"

\* Top of the for loop with enumerate index j: the next iteration, or the fall
\* through to print_summary once the list is exhausted.
LoopAt(j) ==
    /\ i' = j
    /\ IF j <= Len(commands)
       THEN pc' = "step" /\ UNCHANGED ending
       ELSE pc' = "summary" /\ ending' = "completed"

\* A prompt and the decision it returned.
Asked(about, accepted) == [name |-> about, accepted |-> accepted]

\* Mutant: the confirmation is taken as accepted without being asked.
ConfirmByDefault ==
    /\ pc = "confirm"
    /\ LoopAt(1)
    /\ UNCHANGED << RICH_AVAILABLE, commands, message, environment, gate_results, typed,
                    migration_vars,
                    successful_commands, failed_commands,
                    skipped_commands, p, missing, check_result, result, returned,
                    calls, summary, prompts, exit_status >>

\* The one-time confirmation with its decision taken.
ConfirmWith(accepted) ==
    /\ prompts' = Append(prompts, Asked(ConfirmPrompt, accepted))
    /\ IF accepted
       THEN LoopAt(1) /\ UNCHANGED exit_status
       ELSE DeclineConfirmation

\* The confirmation as a whole: whatever is typed until a line is taken.
Confirm ==
    /\ pc = "confirm"
    /\ \E r \in Responses :
        /\ ConfirmDecision(RICH_AVAILABLE, r).valid
        /\ ConfirmWith(ConfirmDecision(RICH_AVAILABLE, r).value)
    /\ UNCHANGED << RICH_AVAILABLE, commands, message, environment, gate_results, typed,
                    migration_vars,
                    successful_commands, failed_commands,
                    skipped_commands, p, missing, check_result, result, returned,
                    calls, summary >>

\* The first line typed at the confirmation, when it is the line followed: a
\* rejected line leaves the prompt open.
ConfirmTyped ==
    /\ pc = "confirm"
    /\ typed = <<>>
    /\ \E r \in Answers :
        /\ typed' = <<r>>
        /\ IF ConfirmDecision(RICH_AVAILABLE, r).valid
           THEN ConfirmWith(ConfirmDecision(RICH_AVAILABLE, r).value)
           ELSE UNCHANGED <<prompts, pc, i, ending, exit_status>>
    /\ UNCHANGED << RICH_AVAILABLE, commands, message, environment, gate_results,
                    migration_vars,
                    successful_commands, failed_commands,
                    skipped_commands, p, missing, check_result, result, returned,
                    calls, summary >>

\* Whether run_command runs command.check_cmd before command.cmd: only the rich
\* branch looks at check_cmd.
RunsPrecheck(rich, command) == rich /\ command.check_cmd

\* Mutant: the TimeoutExpired handler returns True.
SucceededOnTimeout(out) == out \in {"ok", "timeout"}

\* Mutant: the FileNotFoundError handler returns True.
SucceededOnNotFound(out) == out \in {"ok", "notfound"}

\* run_command's return value for an outcome of a subprocess.run call: every
\* exception and every non-zero return code ends in `return False`.
Succeeded(out) == out = "ok"

\* run_command(command) as a function of the console mode and of what the
\* check_cmd run and the cmd run do (cmd_out is not looked at when the rich
\* branch's check_cmd run fails; check_out never is in the basic branch).
RunCommandResult(rich, command, check_out, cmd_out) ==
    IF RunsPrecheck(rich, command) /\ ~Succeeded(check_out)
    THEN FALSE
    ELSE Succeeded(cmd_out)

\* Mutant: the hint is printed with every failure line.
OutcomeMessageWithHint(rich, command, out, checking) ==
    [name |-> command.name,
     kind |-> IF out = "timeout" THEN "timed out" ELSE "failed",
     hint |-> command.install_hint]

\* The console line of a failed subprocess.run outcome: which message, and
\* whether command.install_hint is printed with it.
OutcomeMessage(rich, command, out, checking) ==
    IF rich
    THEN [name |-> command.name,
          kind |-> CASE out = "timeout" -> "timed out"
                     [] out = "notfound" -> "command not found"
                     [] out = "oserror" -> "unexpected error"
                     [] OTHER -> IF checking THEN "failed with exit code"
                                 ELSE "failed",
          hint |-> /\ command.install_hint
                   /\ \/ out = "notfound"
                      \/ checking /\ out = "nonzero"]
    ELSE [name |-> command.name,
          kind |-> IF out = "nonzero" THEN "failed" ELSE "error: " \o out,
          hint |-> FALSE]

\* What run_command prints for a failed command.
FailureMessage(rich, command, check_out, cmd_out) ==
    IF RunsPrecheck(rich, command) /\ ~Succeeded(check_out)
    THEN OutcomeMessage(rich, command, check_out, TRUE)
    ELSE OutcomeMessage(rich, command, cmd_out, FALSE)

\* Mutant: no failed command is prompted for.
NeedsPromptNever(command) == FALSE

\* Mutant: every failed command is prompted for, optional or not.
NeedsPromptAlways(command) == TRUE

\* Whether a failed command makes the loop ask the continuation prompt.
NeedsPrompt(command) == command.required

\* Mutant: names are put at the front of the two lists.
ClassifyPrepending(success) ==
    LET command == commands[i] IN
    /\ returned' = Append(returned, success)
    /\ IF success
       THEN /\ successful_commands' = <<command.name>> \o successful_commands
            /\ UNCHANGED failed_commands
            /\ LoopAt(i + 1)
       ELSE /\ failed_commands' = <<command.name>> \o failed_commands
            /\ UNCHANGED successful_commands
            /\ IF NeedsPrompt(command)
               THEN pc' = "prompt" /\ UNCHANGED <<i, ending>>
               ELSE LoopAt(i + 1)

\* Mutant: the append to successful_commands is not guarded by `if success`.
ClassifyIntoBoth(success) ==
    LET command == commands[i] IN
    /\ returned' = Append(returned, success)
    /\ successful_commands' = Append(successful_commands, command.name)
    /\ IF success
       THEN /\ UNCHANGED failed_commands
            /\ LoopAt(i + 1)
       ELSE /\ failed_commands' = Append(failed_commands, command.name)
            /\ IF NeedsPrompt(command)
               THEN pc' = "prompt" /\ UNCHANGED <<i, ending>>
               ELSE LoopAt(i + 1)

\* The classification of the current command, up to the continuation prompt.
Classify(success) ==
    LET command == commands[i] IN
    /\ returned' = Append(returned, success)
    /\ IF success
       THEN /\ successful_commands' = Append(successful_commands, command.name)
            /\ UNCHANGED failed_commands
            /\ LoopAt(i + 1)
       ELSE /\ failed_commands' = Append(failed_commands, command.name)
            /\ UNCHANGED successful_commands
            /\ IF NeedsPrompt(command)
               THEN pc' = "prompt" /\ UNCHANGED <<i, ending>>
               ELSE LoopAt(i + 1)

\* run_command's check_cmd run (rich branch); a failure returns False at once.
RunPrecheck ==
    /\ pc = "step"
    /\ RunsPrecheck(RICH_AVAILABLE, commands[i])
    /\ \E out \in Outcomes :
        /\ calls' = Append(calls, <<"check", commands[i].name>>)
        /\ check_result' = out
        /\ result' = "none"
        /\ message' = IF Succeeded(out) THEN NoMessage
                      ELSE OutcomeMessage(RICH_AVAILABLE, commands[i], out, TRUE)
        /\ IF Succeeded(out)
           THEN /\ pc' = "cmd"
                /\ UNCHANGED <<successful_commands, failed_commands, i, ending,
                               returned>>
           ELSE Classify(FALSE)
    /\ UNCHANGED << RICH_AVAILABLE, commands, environment, gate_results, typed,
                    migration_vars,
                    skipped_commands, p, missing,
                    prompts, summary, exit_status >>

\* run_command's cmd run and the classification of its return value.
RunInvocation ==
    /\ \/ pc = "cmd"
       \/ pc = "step" /\ ~RunsPrecheck(RICH_AVAILABLE, commands[i])
    /\ \E out \in Outcomes :
        /\ calls' = Append(calls, <<"cmd", commands[i].name>>)
        /\ result' = out
        /\ check_result' = IF pc = "cmd" THEN check_result ELSE "none"
        /\ message' = IF Succeeded(out) THEN NoMessage
                      ELSE OutcomeMessage(RICH_AVAILABLE, commands[i], out, FALSE)
        /\ Classify(Succeeded(out))
    /\ UNCHANGED << RICH_AVAILABLE, commands, environment, gate_results, typed,
                    migration_vars,
                    skipped_commands, p, missing,
                    prompts, summary, exit_status >>

\* Mutant: `continue` in place of `break`.
BreakContinues == LoopAt(i + 1) /\ UNCHANGED skipped_commands

\* Mutant: the commands left unrun by the `break` are recorded as skipped.
BreakRecordsSkipped ==
    /\ pc' = "summary"
    /\ ending' = "halted"
    /\ skipped_commands' =
          [k \in 1..(Len(commands) - i) |-> commands[i + k].name]
    /\ UNCHANGED i

\* Mutant: `return` in place of `break`.
BreakReturns ==
    pc' = "done" /\ ending' = "halted" /\ UNCHANGED <<i, skipped_commands>>

\* The `break` after a refused continuation: out of the loop, to print_summary.
Break ==
    pc' = "summary" /\ ending' = "halted" /\ UNCHANGED <<i, skipped_commands>>

\* "Continue despite this failure?": declining breaks out of the loop.
ContinueWith(accepted) ==
    /\ prompts' = Append(prompts, Asked(commands[i].name, accepted))
    /\ IF accepted THEN LoopAt(i + 1) /\ UNCHANGED skipped_commands ELSE Break

\* The continuation prompt as a whole: whatever is typed until a line is taken.
ContinuePrompt ==
    /\ pc = "prompt"
    /\ \E r \in Responses :
        /\ ContinueDecision(RICH_AVAILABLE, r).valid
        /\ ContinueWith(ContinueDecision(RICH_AVAILABLE, r).value)
    /\ UNCHANGED << RICH_AVAILABLE, commands, message, environment, gate_results, typed,
                    migration_vars,
                    successful_commands, failed_commands,
                    p, missing, check_result, result, returned, calls, summary,
                    exit_status >>

\* The first line typed at a continuation prompt, when it is the line followed.
ContinueTyped ==
    /\ pc = "prompt"
    /\ typed = <<>>
    /\ \E r \in Answers :
        /\ typed' = <<r>>
        /\ IF ContinueDecision(RICH_AVAILABLE, r).valid
           THEN ContinueWith(ContinueDecision(RICH_AVAILABLE, r).value)
           ELSE UNCHANGED <<prompts, pc, i, ending, skipped_commands>>
    /\ UNCHANGED << RICH_AVAILABLE, commands, message, environment, gate_results,
                    migration_vars,
                    successful_commands, failed_commands,
                    p, missing, check_result, result, returned, calls, summary,
                    exit_status >>

\* The names of the successful row of the rich table; the basic console prints
\* only the count.
ShownSuccessful(rich, succ) ==
    IF rich THEN SubSeq(succ, 1, Min(SummaryNameLimit, Len(succ))) ELSE <<>>

\* The skipped row of the rich table; the basic console prints only the count.
ShownSkipped(rich, skip) == IF rich THEN skip ELSE <<>>

\* What print_summary displays for the three lists.
Summary(rich, succ, fail, skip) ==
    [printed |-> TRUE,
     successful_count |-> Len(succ),
     successful_names |-> ShownSuccessful(rich, succ),
     more |-> IF rich /\ Len(succ) > SummaryNameLimit
              THEN Len(succ) - SummaryNameLimit ELSE 0,
     failed_count |-> Len(fail),
     failed_names |-> fail,
     skipped_count |-> Len(skip),
     skipped_names |-> ShownSkipped(rich, skip),
     all_ok |-> fail = <<>>]

\* The status with which the process ends when main returns from
\* run_installation without an exception.
ReturnStatus(succ, fail) == 0

\* Mutant: print_summary empties the lists it has shown.
PrintSummaryConsuming ==
    /\ pc = "summary"
    /\ summary' = Summary(RICH_AVAILABLE, successful_commands, failed_commands,
                          skipped_commands)
    /\ pc' = "done"
    /\ exit_status' = ReturnStatus(successful_commands, failed_commands)
    /\ successful_commands' = <<>>
    /\ failed_commands' = <<>>
    /\ UNCHANGED << RICH_AVAILABLE, commands, message, environment, gate_results, typed,
                    migration_vars,
                    skipped_commands, p, missing, i, check_result, result, returned,
                    calls, prompts, ending >>

\* print_summary, then the return through run_installation and main.
PrintSummary ==
    /\ pc = "summary"
    /\ summary' = Summary(RICH_AVAILABLE, successful_commands, failed_commands,
                          skipped_commands)
    /\ pc' = "done"
    /\ exit_status' = ReturnStatus(successful_commands, failed_commands)
    /\ UNCHANGED << RICH_AVAILABLE, commands, message, environment, gate_results, typed,
                    migration_vars,
                    successful_commands, failed_commands,
                    skipped_commands, p, missing, i, check_result, result, returned,
                    calls, prompts, ending >>

\* KeyboardInterrupt while waiting on a child process or on the user.
Interrupt ==
    /\ pc \in {"gate", "confirm", "step", "cmd", "prompt"}
    /\ SysExit(1, "interrupted")
    /\ UNCHANGED << RICH_AVAILABLE, commands, message, environment, gate_results, typed,
                    migration_vars,
                    successful_commands, failed_commands,
                    skipped_commands, p, missing, i, check_result, result, returned,
                    calls, prompts, summary >>

\* Mutant: main's `except Exception` prints the error and returns.
FaultSwallowed ==
    /\ pc \in {"gate", "confirm", "step", "prompt", "summary"}
    /\ SysExit(0, "fault")
    /\ UNCHANGED << RICH_AVAILABLE, commands, message, environment, gate_results, typed,
                    migration_vars,
                    successful_commands, failed_commands,
                    skipped_commands, p, missing, i, check_result, result, returned,
                    calls, prompts, summary >>

\* Any other exception outside run_command's try blocks (EOFError from input(),
\* an output error in print): main's `except Exception`.
Fault ==
    /\ pc \in {"gate", "confirm", "step", "prompt", "summary"}
    /\ SysExit(1, "fault")
    /\ UNCHANGED << RICH_AVAILABLE, commands, message, environment, gate_results, typed,
                    migration_vars,
                    successful_commands, failed_commands,
                    skipped_commands, p, missing, i, check_result, result, returned,
                    calls, prompts, summary >>

Next ==
    \/ CheckPrerequisite
    \/ Confirm
    \/ RunPrecheck
    \/ RunInvocation
    \/ ContinuePrompt
    \/ PrintSummary
    \/ Interrupt
    \/ Fault

Spec == Init /\ [][Next]_vars

(***************************************************************************)
(* The runs in which nothing is raised into main: every subprocess.run     *)
(* call comes back and every prompt is answered, so the program takes its  *)
(* next step as long as it has one.                                        *)
(***************************************************************************)
LiveNext ==
    \/ CheckPrerequisite
    \/ Confirm
    \/ RunPrecheck
    \/ RunInvocation
    \/ ContinuePrompt
    \/ PrintSummary

LiveSpec == Init /\ [][LiveNext]_vars /\ WF_vars(LiveNext)

(***************************************************************************)
(* A run of two declared commands in which one line typed at a prompt is   *)
(* followed: the first line typed at the confirmation or at a continuation *)
(* prompt.                                                                 *)
(***************************************************************************)
TypedInit ==
    /\ commands = SubSeq(DeclaredCommands, 1, 2)
    /\ environment = <<>>
    /\ typed = <<>>
    /\ NoMigration
    /\ Start

TypedNext ==
    \/ CheckPrerequisite
    \/ Confirm
    \/ ConfirmTyped
    \/ RunPrecheck
    \/ RunInvocation
    \/ ContinuePrompt
    \/ ContinueTyped
    \/ PrintSummary

TypedSpec == TypedInit /\ [][TypedNext]_vars

(***************************************************************************)
(* migrate_xi.main, run up to MaxRuns times on one backend directory.  Of  *)
(* the file system it keeps what the steps' order matters for: how many    *)
(* [package] sections the root Cargo.toml holds, and which of the two      *)
(* groups of cleanup_xi_directories (DIRS_TO_DELETE, FILES_TO_DELETE) have *)
(* been deleted.  Every step can raise an Exception, before or after a     *)
(* part of what it does.                                                   *)
(***************************************************************************)
installer_vars ==
    << RICH_AVAILABLE, commands, successful_commands, failed_commands,
       skipped_commands, pc, p, missing, i, check_result, result, returned,
       calls, prompts, summary, ending, exit_status, message, environment,
       gate_results, typed >>

\* The calls of main's try block, in order.
Steps ==
    << "create_crates_directory", "move_packages", "update_cargo_toml",
       "create_symphony_main", "create_symphony_cargo_toml", "create_readme",
       "cleanup_xi_directories", "print_summary" >>

\* The root Cargo.toml may or may not hold a binary package before the first
\* run.
MigrationInit ==
    /\ commands = DeclaredCommands
    /\ environment = <<>>
    /\ typed = <<>>
    /\ Start
    /\ stage = 0
    /\ ran = <<>>
    /\ exits = <<>>
    /\ cargo_packages \in {0, 1}
    /\ deleted = {}

\* main is called.
EnterMain ==
    /\ stage = 0
    /\ Len(exits) < MaxRuns
    /\ stage' = 1
    /\ ran' = <<>>
    /\ UNCHANGED <<exits, cargo_packages, deleted, installer_vars>>

\* The end of a step that did not raise: on to the next call of the try
\* block, or `return 0` after the last.
StepDone ==
    IF stage < Len(Steps)
    THEN stage' = stage + 1 /\ UNCHANGED exits
    ELSE stage' = 0 /\ exits' = Append(exits, 0)

\* `except Exception`: the error is printed and main returns 1.
StepRaised == stage' = 0 /\ exits' = Append(exits, 1)

\* A step that writes neither the root Cargo.toml nor the cleanup targets.
OtherStep(k) ==
    /\ stage = k
    /\ ran' = Append(ran, Steps[k])
    /\ StepDone \/ StepRaised
    /\ UNCHANGED <<cargo_packages, deleted, installer_vars>>

CreateCratesDirectory == OtherStep(1)

MovePackages == OtherStep(2)

\* Mutant: the root Cargo.toml is opened for appending.
RootCargoAppended(sections) == sections

\* open(root_cargo, 'w') and the write of the workspace manifest: whatever the
\* file held is gone, and the new content has no [package] section.
RootCargoWritten(sections) == 0

\* update_cargo_toml: the root manifest is written first; the updates of the
\* packages' manifests after it can still raise.
UpdateCargoToml ==
    /\ stage = 3
    /\ ran' = Append(ran, Steps[3])
    /\ \/ cargo_packages' = RootCargoWritten(cargo_packages) /\ StepDone
       \/ cargo_packages' = RootCargoWritten(cargo_packages) /\ StepRaised
       \/ UNCHANGED cargo_packages /\ StepRaised
    /\ UNCHANGED <<deleted, installer_vars>>

CreateSymphonyMain == OtherStep(4)

\* create_symphony_cargo_toml: the content read plus the binary [package]; a
\* failure to read changes nothing, one after open(.., 'w') leaves the file empty.
CreateSymphonyCargoToml ==
    /\ stage = 5
    /\ ran' = Append(ran, Steps[5])
    /\ \/ cargo_packages' = cargo_packages + 1 /\ StepDone
       \/ cargo_packages' = 0 /\ StepRaised
       \/ UNCHANGED cargo_packages /\ StepRaised
    /\ UNCHANGED <<deleted, installer_vars>>

CreateReadme == OtherStep(6)

\* cleanup_xi_directories: the directories, then the files; rmtree or unlink can
\* raise with a part deleted.
CleanupXiDirectories ==
    /\ stage = 7
    /\ ran' = Append(ran, Steps[7])
    /\ \/ deleted' = {"DIRS_TO_DELETE", "FILES_TO_DELETE"} /\ StepDone
       \/ deleted' = deleted \cup {"DIRS_TO_DELETE"} /\ StepRaised
       \/ UNCHANGED deleted /\ StepRaised
    /\ UNCHANGED <<cargo_packages, installer_vars>>

PrintMigrationSummary == OtherStep(8)

MigrationNext ==
    \/ EnterMain
    \/ CreateCratesDirectory
    \/ MovePackages
    \/ UpdateCargoToml
    \/ CreateSymphonyMain
    \/ CreateSymphonyCargoToml
    \/ CreateReadme
    \/ CleanupXiDirectories
    \/ PrintMigrationSummary

MigrationSpec == MigrationInit /\ [][MigrationNext]_vars

(***************************************************************************)
(* check_prerequisites called again and again against one environment:     *)
(* what each tool's version check does is fixed at the start.              *)
(***************************************************************************)
GateInit ==
    /\ commands = DeclaredCommands
    /\ environment \in [1..Len(Prerequisites) -> Outcomes]
    /\ typed = <<>>
    /\ NoMigration
    /\ Start

\* One iteration of the loop, the version check doing what the environment
\* says for its tool.
GateCheck ==
    /\ pc = "gate"
    /\ GateStep(environment[p])
    /\ UNCHANGED << RICH_AVAILABLE, commands, message, environment, gate_results, typed,
                    migration_vars,
                    successful_commands, failed_commands,
                    skipped_commands, i, check_result, result, returned, prompts,
                    summary >>

\* The version checks run by the first k logged calls.
RECURSIVE ChecksLogged(_)
ChecksLogged(k) ==
    IF k = 0 THEN 0 ELSE gate_results[k].checked + ChecksLogged(k - 1)

\* How a check_prerequisites call ended: the list it built, how many version
\* checks it ran, and whether it returned True, returned False or raised.
GateResult ==
    [missing |-> missing,
     checked |-> Len(calls) - ChecksLogged(Len(gate_results)),
     verdict |-> CASE ending = "fault" -> "raised"
                   [] ending = "gate_abort" -> "False"
                   [] OTHER -> "True"]

\* The end of one call is logged, and the next call starts.
GateAgain ==
    /\ pc \in {"confirm", "done"}
    /\ Len(gate_results) < GateCalls
    /\ gate_results' = Append(gate_results, GateResult)
    /\ pc' = IF Len(gate_results') < GateCalls THEN "gate" ELSE "done"
    /\ p' = 1
    /\ ending' = "running"
    /\ exit_status' = -1
    /\ UNCHANGED << RICH_AVAILABLE, commands, message, environment, missing,
                    typed, migration_vars,
                    successful_commands, failed_commands,
                    skipped_commands, i, check_result, result, returned, prompts,
                    summary, calls >>

GateNext ==
    \/ GateCheck
    \/ GateAgain

GateSpec == GateInit /\ [][GateNext]_vars

(***************************************************************************)
(* Helpers of the properties.                                              *)
(***************************************************************************)
\* The command a name belongs to (names are unique in every command list).
CommandNamed(name) == CHOOSE c \in Range(commands) : c.name = name

StepCalls == { k \in 1..Len(calls) : calls[k][1] # "prereq" }

NoDuplicates(s) == \A a, b \in 1..Len(s) : s[a] = s[b] => a = b

ListsEmpty ==
    /\ successful_commands = <<>>
    /\ failed_commands = <<>>
    /\ skipped_commands = <<>>

\* The names of the commands at the positions in `keep`, in declared order.
RECURSIVE NamesAt(_, _, _)
NamesAt(cmds, keep, k) ==
    IF k > Len(cmds) THEN <<>>
    ELSE (IF k \in keep THEN <<cmds[k].name>> ELSE <<>>) \o NamesAt(cmds, keep, k + 1)

\* Whether <<status, shown>> is what some run that classified every command of
\* `cmds` reports: its exit status and its summary.
IsCompletedReport(rich, cmds, status, shown) ==
    \E failing \in SUBSET (1..Len(cmds)) :
        LET succ == NamesAt(cmds, (1..Len(cmds)) \ failing, 1)
            fail == NamesAt(cmds, failing, 1)
        IN  /\ status = ReturnStatus(succ, fail)
            /\ shown = Summary(rich, succ, fail, <<>>)

(***************************************************************************)
(* C1: when every run_command call of the loop returned True for every     *)
(* declared command, successful_commands is the declared names in declared *)
(* order and failed_commands and skipped_commands are empty.               *)
(***************************************************************************)
C1_AllSucceedInOrder ==
    ( /\ Len(returned) = Len(commands)
      /\ \A k \in 1..Len(returned) : returned[k] )
    => /\ successful_commands = Names(commands)
       /\ failed_commands = <<>>
       /\ skipped_commands = <<>>

C1_Witness ==
    /\ pc = "done"
    /\ ending = "completed"
    /\ Len(commands) >= 3
    /\ Len(returned) = Len(commands)
    /\ \A k \in 1..Len(returned) : returned[k]

\* The last prompt was the continuation prompt and the user refused.
ContinuationRefused ==
    /\ Len(prompts) > 1
    /\ ~prompts[Len(prompts)].accepted

\* No command after the i-th was run or classified.
RestUnattempted ==
    \A k \in (i + 1)..Len(commands) :
        /\ commands[k].name \notin
             Range(successful_commands) \cup Range(failed_commands)
               \cup Range(skipped_commands)
        /\ \A c \in StepCalls : calls[c][2] # commands[k].name

C3_OptionalFailureContinues ==
    /\ [][ (returned' = Append(returned, FALSE) /\ ~commands[i].required)
           => /\ failed_commands' = Append(failed_commands, commands[i].name)
              /\ successful_commands' = successful_commands
              /\ prompts' = prompts
              /\ i' = i + 1
              /\ pc' = IF i < Len(commands) THEN "step" ELSE "summary"
              /\ ending' # "halted" ]_vars
    /\ [](ending = "halted" => commands[i].required)
    /\ [](\A k \in 1..Len(prompts) :
            prompts[k].name # ConfirmPrompt
            => CommandNamed(prompts[k].name).required)

C3_Witness ==
    \E k \in 1..Len(returned) :
        /\ ~returned[k]
        /\ ~commands[k].required
        /\ commands[k].name \in Range(failed_commands)
        /\ Len(returned) > k
        /\ Len(prompts) = 1

(***************************************************************************)
(* C4: once check_prerequisites has found a tool missing, the run never    *)
(* reaches the confirmation or a command: no prompt is issued, no check_cmd*)
(* or cmd is run, the three lists stay empty, and after the last tool the  *)
(* run has ended with a non-zero status.                                   *)
(***************************************************************************)
C4_GateAbortsBeforeAnyStep ==
    missing # <<>>
    => /\ pc \in {"gate", "done"}
       /\ prompts = <<>>
       /\ StepCalls = {}
       /\ ListsEmpty
       /\ returned = <<>>
       /\ ~summary.printed
       /\ p > Len(Prerequisites) => (pc = "done" /\ ending = "gate_abort")
       /\ pc = "done" => exit_status # 0

C4_Witness ==
    /\ ending = "gate_abort"
    /\ Len(calls) = Len(Prerequisites)
    /\ Len(missing) = 1

C6_ExitStatusTellsOutcome ==
    pc = "done"
    => /\ ending = "completed" => exit_status = 0
       /\ ending \in {"gate_abort", "declined", "halted"} => exit_status # 0

(***************************************************************************)
(* C7 (as claimed): a run that ends with a name in failed_commands ends    *)
(* with a non-zero exit status.                                            *)
(***************************************************************************)
C7_FailureMeansNonZero ==
    (pc = "done" /\ failed_commands # <<>>) => exit_status # 0

(***************************************************************************)
(* C8 (as claimed): the cmd of a command that declares a check_cmd is run  *)
(* only right after that check_cmd was run and returned 0; when the        *)
(* check_cmd fails, run_command returns False without running cmd.         *)
(***************************************************************************)
C8_PrecheckGuardsInvocation ==
    /\ \A k \in 1..Len(calls) :
          (calls[k][1] = "cmd" /\ CommandNamed(calls[k][2]).check_cmd)
          => (k > 1 /\ calls[k - 1] = <<"check", calls[k][2]>>)
    /\ check_result = "nonzero"
       => /\ result = "none"
          /\ calls[Len(calls)][1] = "check"
          /\ failed_commands # <<>>
          /\ failed_commands[Len(failed_commands)] = calls[Len(calls)][2]

(***************************************************************************)
(* C9: the three lists never share a name, never repeat one and hold only  *)
(* declared names; once the loop has run through every command, every      *)
(* declared name is in exactly one of them.                                *)
(***************************************************************************)
C9_ListsPartitionSteps ==
    LET S == Range(successful_commands)
        F == Range(failed_commands)
        K == Range(skipped_commands)
    IN  /\ S \cap F = {} /\ S \cap K = {} /\ F \cap K = {}
        /\ S \cup F \cup K \subseteq Range(Names(commands))
        /\ NoDuplicates(successful_commands)
        /\ NoDuplicates(failed_commands)
        /\ NoDuplicates(skipped_commands)
        /\ ending = "completed" => S \cup F \cup K = Range(Names(commands))

C9_Witness ==
    /\ pc = "done"
    /\ ending = "completed"
    /\ Len(successful_commands) >= 1
    /\ Len(failed_commands) >= 2

(***************************************************************************)
(* C10 (as claimed): the printed summary shows every declared command's    *)
(* name, as successful, failed or skipped / not attempted.                 *)
(***************************************************************************)
C10_SummaryShowsEveryStep ==
    summary.printed
    => \A k \in 1..Len(commands) :
          commands[k].name \in
              Range(summary.successful_names) \cup Range(summary.failed_names)
                \cup Range(summary.skipped_names)

(***************************************************************************)
(* Helpers of the properties about the command that ran last.              *)
(***************************************************************************)
LastCall == calls[Len(calls)]

LastCommand == CommandNamed(LastCall[2])

LastReturned == returned[Len(returned)]

\* The outcome of the last subprocess.run of a command.
LastOutcome == IF LastCall[1] = "check" THEN check_result ELSE result

TimedOut == check_result = "timeout" \/ result = "timeout"

\* What run_command would have returned had the run that timed out come back
\* with a non-zero return code instead.
ReturnedForNonZero ==
    IF check_result = "timeout"
    THEN RunCommandResult(RICH_AVAILABLE, LastCommand, "nonzero", result)
    ELSE RunCommandResult(RICH_AVAILABLE, LastCommand, check_result, "nonzero")

MessageForNonZero ==
    IF check_result = "timeout"
    THEN FailureMessage(RICH_AVAILABLE, LastCommand, "nonzero", result)
    ELSE FailureMessage(RICH_AVAILABLE, LastCommand, check_result, "nonzero")

C12_FailureIsReturnedNotRaised ==
    [][ (calls' # calls /\ LastCall'[1] # "prereq" /\ LastOutcome' # "ok")
        => /\ returned' = Append(returned, FALSE)
           /\ failed_commands' = Append(failed_commands, commands[i].name)
           /\ successful_commands' = successful_commands
           /\ pc' \in {"prompt", "step", "summary"}
           /\ ending' \in {"running", "completed"}
           /\ exit_status' = exit_status ]_vars

C12_Witness ==
    /\ result = "notfound"
    /\ ~LastReturned
    /\ pc = "step"
    /\ ending = "running"
    /\ LastCommand.check_cmd

(***************************************************************************)
(* Helpers of the properties about the order of the loop.                  *)
(***************************************************************************)
\* The place of a name in self.commands.
IndexOf(name) == CHOOSE k \in 1..Len(commands) : commands[k].name = name

\* The commands run_command has returned for, by what it returned.
Classified(value) == { k \in 1..Len(returned) : returned[k] = value }

\* The failure of command j was put to the user, who chose to continue.
AcceptedAfter(j) == Asked(commands[j].name, TRUE) \in Range(prompts)

(***************************************************************************)
(* C13: the commands are run one at a time in the order of self.commands:  *)
(* the commands classified so far are the first ones of the list, each in  *)
(* the list its return value selects and in list order; the runs of        *)
(* check_cmd and cmd never go back to an earlier command; and a command is *)
(* run only when every command before it has been classified and the       *)
(* continuation prompt of every failed required one before it was accepted.*)
(***************************************************************************)
C13_ExecutedInDeclaredOrder ==
    /\ Len(returned) <= Len(commands)
    /\ successful_commands = NamesAt(commands, Classified(TRUE), 1)
    /\ failed_commands = NamesAt(commands, Classified(FALSE), 1)
    /\ \A c \in 1..Len(calls) :
          calls[c][1] # "prereq"
          => LET k == IndexOf(calls[c][2]) IN
             IF c = 1 \/ calls[c - 1][1] = "prereq"
             THEN k = 1
             ELSE \/ /\ calls[c - 1] = <<"check", calls[c][2]>>
                     /\ calls[c][1] = "cmd"
                  \/ k = IndexOf(calls[c - 1][2]) + 1
    /\ StepCalls # {}
       => LET last == IndexOf(calls[Len(calls)][2]) IN
          /\ last \in {Len(returned), Len(returned) + 1}
          /\ \A j \in 1..(last - 1) :
                (~returned[j] /\ commands[j].required) => AcceptedAfter(j)
    /\ StepCalls = {} => returned = <<>>

C13_Witness ==
    /\ Len(returned) = 3
    /\ ~returned[1] /\ commands[1].required
    /\ returned[2]
    /\ ~returned[3]
    /\ \E c \in StepCalls : calls[c] = <<"check", commands[2].name>>

(***************************************************************************)
(* Helpers of the properties about the continuation prompt.                *)
(***************************************************************************)
\* The names the continuation prompt was answered for, in order (the first
\* prompt of a run is the confirmation).
ContinuationsAsked == [k \in 1..(Len(prompts) - 1) |-> prompts[k + 1].name]

\* The classified commands that failed and are required, in order.
FailedRequired ==
    NamesAt(commands, { k \in Classified(FALSE) : commands[k].required }, 1)

(***************************************************************************)
(* C16: the continuation prompt is asked once for each command that failed *)
(* and is required, in order, and for no other command (the prompt of the  *)
(* last failed one may still be pending, or cut short by an exception);    *)
(* and a run that printed its summary after the user accepted every prompt *)
(* has run and classified every declared command.                          *)
(***************************************************************************)
C16_PromptOncePerRequiredFailure ==
    /\ \/ ContinuationsAsked = FailedRequired
       \/ /\ pc = "prompt" \/ ending \in {"interrupted", "fault"}
          /\ i \in 1..Len(commands)
          /\ FailedRequired = Append(ContinuationsAsked, commands[i].name)
    /\ pc # "prompt" /\ ending \in {"running", "completed", "halted"}
       => ContinuationsAsked = FailedRequired
    /\ (summary.printed /\ \A k \in 1..Len(prompts) : prompts[k].accepted)
       => /\ ending = "completed"
          /\ Len(returned) = Len(commands)
          /\ \A k \in 1..Len(commands) :
                /\ commands[k].name \in
                     Range(successful_commands) \cup Range(failed_commands)
                /\ \E c \in StepCalls : calls[c][2] = commands[k].name

C16_Witness ==
    /\ summary.printed
    /\ ending = "completed"
    /\ Len(prompts) = 2
    /\ prompts[2].accepted
    /\ Len(failed_commands) = 2
    /\ \E k \in 1..Len(returned) : ~returned[k] /\ ~commands[k].required

(***************************************************************************)
(* C20: nothing is ever put into skipped_commands: the list is empty in    *)
(* every reachable state, also after a halt that left commands unrun, and  *)
(* the summary shows no skipped command.                                   *)
(***************************************************************************)
C20_SkippedStaysEmpty ==
    /\ skipped_commands = <<>>
    /\ summary.printed
       => (summary.skipped_count = 0 /\ summary.skipped_names = <<>>)

C20_Witness ==
    /\ ending = "halted"
    /\ summary.printed
    /\ Len(commands) - i >= 2

(***************************************************************************)
(* Helpers of the properties about runs nobody answers.                    *)
(***************************************************************************)
GatePassed == p > Len(Prerequisites) /\ missing = <<>>

FoundAbsent(out) == out \in {"nonzero", "timeout", "notfound"}

\* The tools from the k-th up to (not including) the `last`-th that the
\* environment makes absent, in order.
RECURSIVE AbsentFrom(_, _)
AbsentFrom(k, last) ==
    IF k >= last THEN <<>>
    ELSE (IF FoundAbsent(environment[k]) THEN <<Prerequisites[k]>> ELSE <<>>)
           \o AbsentFrom(k + 1, last)

\* The tools whose version check ends in an exception that is not caught.
Raising == { k \in 1..Len(Prerequisites) : environment[k] = "oserror" }

FirstRaising == CHOOSE k \in Raising : \A n \in Raising : k <= n

(***************************************************************************)
(* C14: check_prerequisites called again against the same environment      *)
(* ends the same way: the same `missing` list, the same number of version  *)
(* checks, the same verdict (True, False or the same exception); every     *)
(* call runs its checks from the first tool on.                            *)
(***************************************************************************)
C14_GateIsRepeatable ==
    /\ \A a, b \in 1..Len(gate_results) : gate_results[a] = gate_results[b]
    /\ \A c \in 1..Len(calls) :
          \/ calls[c][2] = Prerequisites[1]
          \/ c > 1 /\ calls[c - 1][2] # Prerequisites[Len(Prerequisites)]

C14_Witness ==
    /\ Len(gate_results) = GateCalls
    /\ Len(gate_results[1].missing) = 2
    /\ gate_results[GateCalls].verdict = "False"

(***************************************************************************)
(* C19 (as claimed): every check_prerequisites call runs the version check *)
(* of every tool, puts into `missing` exactly the tools whose check does    *)
(* not come back with return code 0 (non-zero code, timeout, could not be  *)
(* started), and returns True exactly when `missing` is empty.             *)
(***************************************************************************)
C19_GateChecksEveryTool ==
    \A a \in 1..Len(gate_results) :
        LET r == gate_results[a] IN
        /\ r.checked = Len(Prerequisites)
        /\ r.missing =
             NamesAt([k \in 1..Len(Prerequisites) |-> [name |-> Prerequisites[k]]],
                     { k \in 1..Len(Prerequisites) : ~ToolPresent(environment[k]) },
                     1)
        /\ r.verdict = IF r.missing = <<>> THEN "True" ELSE "False"

(***************************************************************************)
(* C19 (amended): a check_prerequisites call runs the version checks in    *)
(* order and does not stop at a missing tool; a tool is put into `missing` *)
(* exactly when its check returns a non-zero code, times out or its        *)
(* executable is not found, and the call returns True exactly when         *)
(* `missing` is empty; but a check that fails to start with any other OS   *)
(* error is not caught: the call ends there with that exception, the tools *)
(* after it are not checked, and the run ends with exit status 1.          *)
(***************************************************************************)
C19_GateChecksUntilUncaughtError ==
    /\ \A a \in 1..Len(gate_results) :
          LET r == gate_results[a] IN
          IF Raising = {}
          THEN /\ r.checked = Len(Prerequisites)
               /\ r.missing = AbsentFrom(1, Len(Prerequisites) + 1)
               /\ r.verdict = IF r.missing = <<>> THEN "True" ELSE "False"
          ELSE /\ r.checked = FirstRaising
               /\ r.missing = AbsentFrom(1, FirstRaising)
               /\ r.verdict = "raised"
    /\ ending = "fault" => exit_status = 1
    /\ \A c \in 1..Len(calls) : calls[c][1] = "prereq"

C19_Witness ==
    /\ Len(gate_results) >= 1
    /\ gate_results[1].missing = <<Prerequisites[1], Prerequisites[3]>>
    /\ gate_results[1].checked = 3
    /\ environment[1] = "timeout"
    /\ environment[3] = "notfound"

(***************************************************************************)
(* Helpers of the properties about one run_command call.                   *)
(***************************************************************************)
\* run_command has returned for the command run last.
LastHasReturned ==
    /\ calls # <<>>
    /\ LastCall[1] # "prereq"
    /\ Len(returned) = IndexOf(LastCall[2])

\* What the runs of the last command's check_cmd and cmd may have done, as
\* far as the run has seen it ("none": not run, so not seen).
Seen(check_out, cmd_out) ==
    /\ check_result # "none" => check_out = check_result
    /\ result # "none" => cmd_out = result

(***************************************************************************)
(* C17 (as claimed): for the same command and the same outcomes of its     *)
(* check_cmd and cmd, run_command returns the same value in the rich and   *)
(* in the basic console, so both put the command into the same list:       *)
(* whatever the last command's subprocess runs did, the other console mode *)
(* would have returned what this run's run_command returned.               *)
(***************************************************************************)
C17_ModesClassifyAlike ==
    LastHasReturned
    => \A check_out, cmd_out \in Outcomes :
          Seen(check_out, cmd_out)
          => /\ LastReturned
                  = RunCommandResult(RICH_AVAILABLE, LastCommand, check_out, cmd_out)
             /\ LastReturned
                  = RunCommandResult(~RICH_AVAILABLE, LastCommand, check_out, cmd_out)

Lists == <<successful_commands, failed_commands, skipped_commands>>

(***************************************************************************)
(* C21: printing changes nothing it reports on: print_summary leaves the   *)
(* three lists and self.commands as they are and shows exactly the lists;  *)
(* the failure line of a command changes together with run_command's       *)
(* return value only, and a list changes only by the append of the name of *)
(* the command just run, chosen by that return value; self.commands never  *)
(* changes.                                                                *)
(***************************************************************************)
C21_ReportingIsObservational ==
    /\ [][commands' = commands]_vars
    /\ [][summary' # summary
          => /\ UNCHANGED <<Lists, returned, message>>
             /\ summary' = Summary(RICH_AVAILABLE, successful_commands,
                                   failed_commands, skipped_commands)]_vars
    /\ [][Lists' # Lists
          => /\ returned' = Append(returned, returned'[Len(returned')])
             /\ Lists' = IF returned'[Len(returned')]
                         THEN <<Append(successful_commands, commands[i].name),
                                failed_commands, skipped_commands>>
                         ELSE <<successful_commands,
                                Append(failed_commands, commands[i].name),
                                skipped_commands>>]_vars
    /\ [][message' # message => calls' # calls]_vars

C21_Witness ==
    /\ summary.printed
    /\ successful_commands # <<>>
    /\ failed_commands # <<>>
    /\ message # NoMessage

Endings == {"gate_abort", "declined", "halted", "completed"}

(***************************************************************************)
(* C23: when every subprocess.run call comes back and every prompt is      *)
(* answered, the run comes to its end; unless a version check of the gate  *)
(* could not be started, it ends in exactly one of gate abort, declined    *)
(* confirmation, halt after a refused continuation, or completion of all   *)
(* commands, and that ending never changes; the summary is printed after a *)
(* halt and after completion and in no other case, once, and nothing is    *)
(* classified after it.                                                    *)
(***************************************************************************)
C23_RunTerminates ==
    /\ <>(pc = "done")
    /\ [](ending = "fault" => ~GatePassed)
    /\ []((pc = "done" /\ ending # "fault")
          => /\ ending \in Endings
             /\ summary.printed <=> ending \in {"halted", "completed"}
             /\ ending = "completed" => Len(returned) = Len(commands)
             /\ summary.printed
                => summary = Summary(RICH_AVAILABLE, successful_commands,
                                     failed_commands, skipped_commands))
    /\ [][ending # "running" => ending' = ending]_vars
    /\ [][summary.printed => UNCHANGED <<summary, returned, Lists, calls>>]_vars

C23_Witness ==
    /\ pc = "done"
    /\ ending = "halted"
    /\ summary.printed
    /\ Len(returned) >= 2

(***************************************************************************)
(* Helpers of the properties about the lines typed at the prompts.         *)
(***************************************************************************)
SameLetter(c, letter) ==
    \/ c = letter
    \/ <<c, letter>> \in { <<"Y", "y">>, <<"N", "n">>, <<"E", "e">>,
                           <<"S", "s">>, <<"O", "o">> }

\* The line is the word, in any case, with blanks before and after it at most.
Says(line, word) ==
    \E lead \in 0..Len(line) :
        /\ lead + Len(word) <= Len(line)
        /\ \A k \in 1..Len(line) :
              IF k <= lead \/ k > lead + Len(word)
              THEN line[k] = " "
              ELSE SameLetter(line[k], word[k - lead])

SaysNo(line) == Says(line, <<"n">>) \/ Says(line, <<"n", "o">>)

SaysYes(line) == Says(line, <<"y">>) \/ Says(line, <<"y", "e", "s">>)

\* The step in which the followed line is typed.
TypedNow == typed = <<>> /\ typed' # <<>>

\* What the step in which a line is typed does to the run.
Proceeds == pc' = "step" /\ i' = 1 /\ ending' = "running"

Cancelled == pc' = "done" /\ ending' = "declined" /\ exit_status' = 0

GoesOn == pc' \in {"step", "summary"} /\ i' = i + 1 /\ ending' # "halted"

Halts == pc' = "summary" /\ ending' = "halted" /\ i' = i

AskedAgain == UNCHANGED <<pc, prompts, i, ending, exit_status>>

(***************************************************************************)
(* C24 (as claimed): a line typed at the confirmation cancels the run when *)
(* it is n or no and lets it proceed otherwise, the empty line included; a *)
(* line typed at the continuation prompt lets the loop go on when it is y  *)
(* or yes and halts it otherwise, the empty line included.                 *)
(***************************************************************************)
C24_OppositeDefaults ==
    [][TypedNow
       => /\ pc = "confirm"
             => IF SaysNo(typed'[1]) THEN Cancelled ELSE Proceeds
          /\ pc = "prompt"
             => IF SaysYes(typed'[1]) THEN GoesOn ELSE Halts]_vars

(***************************************************************************)
(* C24 (amended): the empty line lets the run proceed at the confirmation  *)
(* and halts the loop at the continuation prompt, in both consoles.  In    *)
(* the basic console every other line does as claimed: n / no cancel and   *)
(* anything else proceeds; y / yes go on and anything else halts.  In the  *)
(* rich console only y and n are taken (y proceeds / goes on, n cancels /  *)
(* halts); any other line, "yes", "no" and a blank line included, is       *)
(* rejected and the prompt is asked again.                                 *)
(***************************************************************************)
C24_OppositeDefaultsPerConsole ==
    [][TypedNow
       => LET line == typed'[1]
              yes == IF pc = "confirm" THEN Proceeds ELSE GoesOn
              no == IF pc = "confirm" THEN Cancelled ELSE Halts
          IN  /\ pc \in {"confirm", "prompt"}
              /\ line = <<>> => IF pc = "confirm" THEN yes ELSE no
              /\ ~RICH_AVAILABLE
                 => IF pc = "confirm"
                    THEN (IF SaysNo(line) THEN no ELSE yes)
                    ELSE (IF SaysYes(line) THEN yes ELSE no)
              /\ (RICH_AVAILABLE /\ line # <<>>)
                 => CASE Says(line, <<"y">>) -> yes
                      [] Says(line, <<"n">>) -> no
                      [] OTHER -> AskedAgain]_vars

C24_Witness ==
    /\ RICH_AVAILABLE
    /\ typed = << <<"n", "o">> >>
    /\ pc = "confirm"
    /\ prompts = <<>>

(***************************************************************************)
(* Helpers of the properties about migrate_xi.main.                        *)
(***************************************************************************)
\* main has returned at least once and is not running.
MainReturned == stage = 0 /\ exits # <<>>

LastExit == exits[Len(exits)]

(***************************************************************************)
(* C25: migrate_xi.main runs its eight steps in the fixed order; a step    *)
(* that raises ends the call with return value 1 and no later step of that *)
(* call runs, so that cleanup deletes only after the six steps before it   *)
(* have come through; a call in which no step raises returns 0, having run *)
(* all eight; and after every call that returned 0, however many calls     *)
(* came before it, the root Cargo.toml holds exactly one [package]         *)
(* section.                                                                *)
(***************************************************************************)
C25_MigrationStepsInOrder ==
    /\ [](/\ Len(ran) <= Len(Steps)
          /\ ran = SubSeq(Steps, 1, Len(ran))
          /\ stage # 0 => Len(ran) = stage - 1)
    /\ []((MainReturned /\ LastExit = 0)
          => /\ ran = Steps
             /\ cargo_packages = 1
             /\ deleted = {"DIRS_TO_DELETE", "FILES_TO_DELETE"})
    /\ [][exits' # exits
          => /\ stage' = 0
             /\ exits' = Append(exits, LastExit')
             /\ LastExit' \in {0, 1}
             /\ ran' = SubSeq(Steps, 1, stage)
             /\ LastExit' = 0 => ran' = Steps]_vars
    /\ [][deleted' # deleted
          => /\ stage = 7
             /\ ran = SubSeq(Steps, 1, 6)]_vars
    /\ [][(stage = 0 /\ stage' # 0) => (stage' = 1 /\ ran' = <<>>)]_vars

C25_Witness ==
    /\ MainReturned
    /\ exits = <<0, 0>>
    /\ cargo_packages = 1
====
